---------------------------- MODULE Spec2Model ----------------------------
(***************************************************************************)
(* A model of linear_stats.py: parse_file, linear_regression,              *)
(* pearson_correlation and main.                                           *)
(*                                                                         *)
(* The program computes with Python floats, i.e. IEEE-754 binary64, and    *)
(* with Python's unbounded ints for the index sequence.  The float         *)
(* arithmetic is modelled bit-exactly: a finite float is a sign, an odd    *)
(* natural mantissa below 2^53 and a binary exponent; every operation      *)
(* computes the exact result and rounds it to nearest, ties to even, with  *)
(* gradual underflow and overflow.  Mantissas exceed the range of the      *)
(* model checker's integers, so naturals are kept as little-endian         *)
(* sequences of limbs.                                                     *)
(***************************************************************************)
EXTENDS Integers, Sequences, FiniteSets, TLC

(***************************************************************************)
(* Naturals of arbitrary size: little-endian limbs in base 2^15, without   *)
(* leading (high) zero limbs; zero is the empty sequence.                  *)
(***************************************************************************)
LimbBits == 15

Base == 2^LimbBits

\* The value e, with v evaluated first: the model checker evaluates operator
\* arguments on demand, and a long chain of pending arguments exhausts its
\* stack.
Force(v, e) == IF v = v THEN e ELSE e

MaxOf(S) == CHOOSE x \in S : \A y \in S : y <= x

MinOf(S) == CHOOSE x \in S : \A y \in S : x <= y

BNorm(a) ==
    LET nz == {i \in 1..Len(a) : a[i] # 0}
    IN  IF nz = {} THEN <<>> ELSE SubSeq(a, 1, MaxOf(nz))

BLimb(a, i) == IF i <= Len(a) THEN a[i] ELSE 0

\* the natural k < 2^31
BFromNat(k) ==
    BNorm(<<k % Base, (k \div Base) % Base, k \div (Base * Base)>>)

\* The operators below work on a range i..j of limbs and split it in halves,
\* passing the carry (or remainder) from one half to the other, so that the
\* depth of the evaluation grows with the logarithm of the length.

\* limbs i..j of a + b, given the carry c into limb i
RECURSIVE BAddR(_, _, _, _, _)
BAddR(a, b, i, j, c) ==
    IF i > j THEN [d |-> <<>>, c |-> c]
    ELSE IF i = j
         THEN LET t == BLimb(a, i) + BLimb(b, i) + c
              IN  [d |-> <<t % Base>>, c |-> t \div Base]
    ELSE LET mid == (i + j) \div 2
             lo  == BAddR(a, b, i, mid, c)
             hi  == BAddR(a, b, mid + 1, j, lo.c)
         IN  [d |-> lo.d \o hi.d, c |-> hi.c]

\* the limbs r.d with the carry r.c, if there is one, as the top limb
BCarry(r) == IF r.c = 0 THEN r.d ELSE Append(r.d, r.c)

BAdd(a, b) == BCarry(BAddR(a, b, 1, MaxOf({Len(a), Len(b)}), 0))

\* limbs i..j of a - b, given the borrow c from limb i
RECURSIVE BSubR(_, _, _, _, _)
BSubR(a, b, i, j, c) ==
    IF i > j THEN [d |-> <<>>, c |-> c]
    ELSE IF i = j
         THEN LET t == a[i] - BLimb(b, i) - c
              IN  IF t < 0 THEN [d |-> <<t + Base>>, c |-> 1]
                  ELSE [d |-> <<t>>, c |-> 0]
    ELSE LET mid == (i + j) \div 2
             lo  == BSubR(a, b, i, mid, c)
             hi  == BSubR(a, b, mid + 1, j, lo.c)
         IN  [d |-> lo.d \o hi.d, c |-> hi.c]

\* a - b for a >= b
BSub(a, b) == BNorm(BSubR(a, b, 1, Len(a), 0).d)

\* -1, 0, 1 as a < b, a = b, a > b
BCmp(a, b) ==
    LET Top(df) == IF df = {} THEN 0
                   ELSE IF a[MaxOf(df)] < b[MaxOf(df)] THEN -1 ELSE 1
    IN  IF Len(a) < Len(b) THEN -1
        ELSE IF Len(a) > Len(b) THEN 1
        ELSE Top({i \in 1..Len(a) : a[i] # b[i]})

\* limbs i..j of a * k, given the carry c into limb i
RECURSIVE BMulSmallR(_, _, _, _, _)
BMulSmallR(a, k, i, j, c) ==
    IF i > j THEN [d |-> <<>>, c |-> c]
    ELSE IF i = j
         THEN LET t == a[i] * k + c
              IN  [d |-> <<t % Base>>, c |-> t \div Base]
    ELSE LET mid == (i + j) \div 2
             lo  == BMulSmallR(a, k, i, mid, c)
             hi  == BMulSmallR(a, k, mid + 1, j, lo.c)
         IN  [d |-> lo.d \o hi.d, c |-> hi.c]

\* a * k for 0 <= k < Base
BMulSmall(a, k) ==
    IF k = 0 THEN <<>> ELSE BCarry(BMulSmallR(a, k, 1, Len(a), 0))

Zeros(n) == [i \in 1..n |-> 0]

\* a * (limbs i..j of b, in their places)
RECURSIVE BMulR(_, _, _, _)
BMulR(a, b, i, j) ==
    IF i = j
    THEN (IF b[i] = 0 THEN <<>> ELSE Zeros(i - 1) \o BMulSmall(a, b[i]))
    ELSE LET mid == (i + j) \div 2
         IN  BAdd(BMulR(a, b, i, mid), BMulR(a, b, mid + 1, j))

BMul(a, b) == IF a = <<>> \/ b = <<>> THEN <<>> ELSE BMulR(a, b, 1, Len(b))

\* limbs j down to i of floor(a / k), given the remainder r left by the
\* limbs above j, for 0 < k < Base
RECURSIVE BDivSmallR(_, _, _, _, _)
BDivSmallR(a, k, i, j, r) ==
    IF i > j THEN [q |-> <<>>, r |-> r]
    ELSE IF i = j
         THEN LET t == r * Base + a[i]
              IN  [q |-> <<t \div k>>, r |-> t % k]
    ELSE LET mid == (i + j) \div 2
             hi  == BDivSmallR(a, k, mid + 1, j, r)
             lo  == BDivSmallR(a, k, i, mid, hi.r)
         IN  Force(hi, [q |-> lo.q \o hi.q, r |-> lo.r])

\* floor(a / k) and a mod k for 0 < k < Base
BDivSmall(a, k) ==
    LET Normal(d) == [q |-> BNorm(d.q), r |-> d.r]
    IN  Normal(BDivSmallR(a, k, 1, Len(a), 0))

\* a * 2^s
BShl(a, s) ==
    IF a = <<>> THEN <<>>
    ELSE Zeros(s \div LimbBits) \o BMulSmall(a, 2^(s % LimbBits))

\* floor(a / 2^s)
BShr(a, s) ==
    LET w == s \div LimbBits
        t == s % LimbBits
    IN  IF w >= Len(a) THEN <<>>
        ELSE BNorm([i \in 1..(Len(a) - w) |->
                      (a[i + w] \div 2^t)
                      + (BLimb(a, i + w + 1) % 2^t) * 2^(LimbBits - t)])

\* a mod 2^s
BLow(a, s) ==
    LET w == s \div LimbBits
        t == s % LimbBits
    IN  IF w >= Len(a) THEN a
        ELSE BNorm(SubSeq(a, 1, w) \o <<a[w + 1] % 2^t>>)

\* the number of bits of k < 2^31
NatBitLen(k) == IF k = 0 THEN 0 ELSE 1 + MaxOf({i \in 0..30 : 2^i <= k})

BBitLen(a) ==
    IF a = <<>> THEN 0 ELSE (Len(a) - 1) * LimbBits + NatBitLen(a[Len(a)])

BIsOdd(a) == a # <<>> /\ a[1] % 2 = 1

\* number of trailing zero bits of a > 0
BTrailingZeros(a) ==
    LET i == MinOf({j \in 1..Len(a) : a[j] # 0})
    IN  (i - 1) * LimbBits + MaxOf({t \in 0..LimbBits : a[i] % 2^t = 0})

\* the largest d in lo..hi with b * d <= r, where b * lo <= r
RECURSIVE QDigit(_, _, _, _)
QDigit(r, b, lo, hi) ==
    IF lo = hi THEN lo
    ELSE LET mid == (lo + hi + 1) \div 2
         IN  IF BCmp(BMulSmall(b, mid), r) <= 0
             THEN QDigit(r, b, mid, hi)
             ELSE QDigit(r, b, lo, mid - 1)

\* limbs j down to i of floor(a / b), given the remainder r left by the limbs
\* above j, for b > 0
RECURSIVE BDivModR(_, _, _, _, _)
BDivModR(a, b, i, j, r) ==
    IF i > j THEN [q |-> <<>>, r |-> r]
    ELSE IF i = j
         THEN LET Digit(r2, d) == [q |-> <<d>>, r |-> BSub(r2, BMulSmall(b, d))]
                  Step(r2) == Digit(r2, QDigit(r2, b, 0, Base - 1))
              IN  Step(BNorm(<<a[i]>> \o r))
    ELSE LET mid == (i + j) \div 2
             hi  == BDivModR(a, b, mid + 1, j, r)
             lo  == BDivModR(a, b, i, mid, hi.r)
         IN  Force(hi, [q |-> lo.q \o hi.q, r |-> lo.r])

\* floor(a / b) and a mod b for b > 0; a divisor of one limb needs no search
\* for the digits of the quotient
BDivMod(a, b) ==
    LET Small(d) == [q |-> d.q, r |-> BFromNat(d.r)]
        Normal(d) == [q |-> BNorm(d.q), r |-> d.r]
    IN  IF Len(b) = 1 THEN Small(BDivSmall(a, b[1]))
        ELSE Normal(BDivModR(a, b, 1, Len(a), <<>>))

\* Bits j down to i of floor(sqrt(a)).  s holds the root r found for the bits
\* above j and the remainder a - r^2; bit i is set if (r + 2^i)^2 <= a, that
\* is if 2^(i+1) * r + 2^(2i) <= a - r^2.
RECURSIVE BSqrtR(_, _, _, _)
BSqrtR(a, i, j, s) ==
    IF i > j THEN s
    ELSE IF i = j
         THEN LET Bit(inc) == IF BCmp(inc, s.rem) <= 0
                              THEN [r |-> BAdd(s.r, BShl(<<1>>, i)),
                                    rem |-> BSub(s.rem, inc)]
                              ELSE s
              IN  Bit(BAdd(BShl(s.r, i + 1), BShl(<<1>>, 2 * i)))
    ELSE LET mid == (i + j) \div 2
             hi  == BSqrtR(a, mid + 1, j, s)
         IN  Force(hi, BSqrtR(a, i, mid, hi))

\* floor(sqrt(a))
BSqrt(a) ==
    BSqrtR(a, 0, (BBitLen(a) + 1) \div 2, [r |-> <<>>, rem |-> a]).r

\* 10^p, by repeated squaring
RECURSIVE BPow10(_)
BPow10(p) ==
    IF p < 5 THEN BFromNat(10^p)
    ELSE LET Square(h) == BMul(h, h)
         IN  BMulSmall(Square(BPow10(p \div 2)), IF p % 2 = 0 THEN 1 ELSE 10)

(***************************************************************************)
(* Python floats (IEEE-754 binary64).  A finite float is                   *)
(* (-1)^s * m * 2^e with m odd (or m zero and e = 0), m < 2^Prec,          *)
(* e >= MinExp and the value below 2^MaxExp; this form is unique, so       *)
(* equality of records is equality of floats (with -0.0 and 0.0 kept       *)
(* apart, as their printed forms differ).                                  *)
(***************************************************************************)
Prec == 53

MinExp == -1074

MaxExp == 1024

NaN == [k |-> "nan", s |-> 0, m |-> <<>>, e |-> 0]

Inf(s) == [k |-> "inf", s |-> s, m |-> <<>>, e |-> 0]

Zero(s) == [k |-> "fin", s |-> s, m |-> <<>>, e |-> 0]

\* a Python exception leaving the operation
Raise(exc, msg) == [k |-> "raise", exc |-> exc, msg |-> msg]

IsRaise(v) == v.k = "raise"

\* the float (-1)^s * q * 2^e, for a q that needs no rounding
Canon(s, q, e) ==
    LET Odd(tz) == [k |-> "fin", s |-> s, m |-> BShr(q, tz), e |-> e + tz]
    IN  IF q = <<>> THEN Zero(s) ELSE Odd(BTrailingZeros(q))

\* The float nearest to (-1)^s * (M + f) * 2^E, where 0 < f < 1 if sticky and
\* f = 0 otherwise.  mode "nearest" rounds to nearest, ties to even, as the
\* hardware does; "down" and "up" give the neighbour below and above an
\* inexact magnitude (the two results a faithful libm may return).
Round(s, M, E, sticky, mode) ==
    LET \* the d low bits of M are dropped: M = q * 2^d + rem; c compares rem
        \* with the half 2^(d-1)
        Up(q, rem, c) ==
            CASE mode = "nearest" ->
                   c > 0 \/ (c = 0 /\ (sticky \/ BIsOdd(q)))
              [] mode = "down" -> FALSE
              [] mode = "up" -> rem # <<>> \/ sticky
        Result(q2, e) ==
            IF BBitLen(q2) + e > MaxExp THEN Inf(s) ELSE Canon(s, q2, e)
        Parts(q, rem, d) ==
            Result(IF Up(q, rem, IF d = 0 THEN -1
                                 ELSE BCmp(rem, BShl(<<1>>, d - 1)))
                   THEN BAdd(q, <<1>>) ELSE q,
                   E + d)
        Drop(d) == Parts(BShr(M, d), BLow(M, d), d)
    IN  Drop(MaxOf({0, BBitLen(M) - Prec, MinExp - E}))

\* float(i) for a Python int i (exact for the ints of the model)
FromInt(i) ==
    IF i < 0 THEN Canon(1, BFromNat(-i), 0) ELSE Canon(0, BFromNat(i), 0)

FNeg(a) == IF a.k = "nan" THEN a ELSE [a EXCEPT !.s = 1 - a.s]

FAdd(a, b) ==
    IF a.k = "nan" \/ b.k = "nan" THEN NaN
    ELSE IF a.k = "inf" THEN (IF b.k = "inf" /\ b.s # a.s THEN NaN ELSE a)
    ELSE IF b.k = "inf" THEN b
    ELSE IF a.m = <<>> /\ b.m = <<>>
         THEN Zero(IF a.s = 1 /\ b.s = 1 THEN 1 ELSE 0)
    ELSE IF a.m = <<>> THEN b
    ELSE IF b.m = <<>> THEN a
    ELSE LET \* the exact sum (-1)^s * M * 2^e
             Exact(s, M, e) ==
                 IF M = <<>> THEN Zero(0) ELSE Round(s, M, e, FALSE, "nearest")
             \* a = (-1)^a.s * ma * 2^e, b = (-1)^b.s * mb * 2^e
             Aligned(ma, mb, e) ==
                 Exact(IF a.s = b.s \/ BCmp(ma, mb) >= 0 THEN a.s ELSE b.s,
                       IF a.s = b.s THEN BAdd(ma, mb)
                       ELSE IF BCmp(ma, mb) >= 0 THEN BSub(ma, mb)
                       ELSE BSub(mb, ma),
                       e)
             Common(e) == Aligned(BShl(a.m, a.e - e), BShl(b.m, b.e - e), e)
         IN  Common(MinOf({a.e, b.e}))

FSub(a, b) == FAdd(a, FNeg(b))

XorSign(a, b) == IF a.s = b.s THEN 0 ELSE 1

FMulMode(a, b, mode) ==
    IF a.k = "nan" \/ b.k = "nan" THEN NaN
    ELSE IF a.k = "inf" \/ b.k = "inf"
         THEN (IF (a.k = "fin" /\ a.m = <<>>) \/ (b.k = "fin" /\ b.m = <<>>)
               THEN NaN ELSE Inf(XorSign(a, b)))
    ELSE Round(XorSign(a, b), BMul(a.m, b.m), a.e + b.e, FALSE, mode)

FMul(a, b) == FMulMode(a, b, "nearest")

\* a / b; Python raises ZeroDivisionError for a zero divisor
FDiv(a, b) ==
    IF b.k = "fin" /\ b.m = <<>>
    THEN Raise("ZeroDivisionError", "float division by zero")
    ELSE IF a.k = "nan" \/ b.k = "nan" THEN NaN
    ELSE IF a.k = "inf"
         THEN (IF b.k = "inf" THEN NaN ELSE Inf(XorSign(a, b)))
    ELSE IF b.k = "inf" \/ a.m = <<>> THEN Zero(XorSign(a, b))
    ELSE LET Quotient(d, k) ==
                 Round(XorSign(a, b), d.q, a.e - b.e - k, d.r # <<>>, "nearest")
             Scaled(k) == Quotient(BDivMod(BShl(a.m, k), b.m), k)
         IN  Scaled(MaxOf({0, Prec + 2 + BBitLen(b.m) - BBitLen(a.m)}))

\* math.sqrt(a): ValueError for a negative argument
FSqrt(a) ==
    IF a.k = "nan" THEN NaN
    ELSE IF a.k = "fin" /\ a.m = <<>> THEN a
    ELSE IF a.s = 1 THEN Raise("ValueError", "math domain error")
    ELSE IF a.k = "inf" THEN a
    ELSE LET Root(N, rt, k) ==
                 Round(0, rt, (a.e - k) \div 2, BMul(rt, rt) # N, "nearest")
             Radicand(N, k) == Root(N, BSqrt(N), k)
             Scaled(k) == Radicand(BShl(a.m, k), k)
             Even(k1) == Scaled(IF (a.e - k1) % 2 = 0 THEN k1 ELSE k1 + 1)
         IN  Even(MaxOf({0, 2 * Prec + 4 - BBitLen(a.m)}))

\* a ** 2 for a float a: C pow(a, 2.0).  The result is exact when the square
\* is representable and otherwise one of its two neighbours, which one being
\* the libm's choice; an overflowing result raises OverflowError.
FPow2(a, libm) ==
    LET Checked(p) ==
            IF a.k = "fin" /\ p.k = "inf"
            THEN Raise("OverflowError", "(34, 'Numerical result out of range')")
            ELSE p
    IN  Checked(FMulMode(a, a, libm))

\* f == 0 for a float f
FIsZero(f) == f.k = "fin" /\ f.m = <<>>

(***************************************************************************)
(* Text.  A line of the file, a message and a formatted number are         *)
(* sequences of one-character strings.                                     *)
(***************************************************************************)
Whitespace == {" ", "\t", "\n", "\r"}

Digits == <<"0", "1", "2", "3", "4", "5", "6", "7", "8", "9">>

IsDigit(c) == \E i \in 1..10 : Digits[i] = c

DigitVal(c) == (CHOOSE i \in 1..10 : Digits[i] = c) - 1

Lower(c) ==
    CASE c = "E" -> "e" [] c = "I" -> "i" [] c = "N" -> "n" [] c = "F" -> "f"
      [] c = "T" -> "t" [] c = "Y" -> "y" [] c = "A" -> "a" [] OTHER -> c

\* str.strip()
Strip(t) ==
    LET nw == {i \in 1..Len(t) : t[i] \notin Whitespace}
    IN  IF nw = {} THEN <<>> ELSE SubSeq(t, MinOf(nw), MaxOf(nw))

\* the natural written by the digits i..j of ds
RECURSIVE BFromDigitsR(_, _, _)
BFromDigitsR(ds, i, j) ==
    IF i > j THEN <<>>
    ELSE IF i = j THEN BFromNat(DigitVal(ds[i]))
    ELSE LET mid == (i + j) \div 2
         IN  BAdd(BMul(BFromDigitsR(ds, i, mid), BPow10(j - mid)),
                  BFromDigitsR(ds, mid + 1, j))

BFromDigits(ds) == BFromDigitsR(ds, 1, Len(ds))

\* the same as a small integer, saturating at MaxExp10
MaxExp10 == 100000

RECURSIVE NatFromDigits(_, _)
NatFromDigits(ds, i) ==
    IF i = 0 THEN 0
    ELSE LET h == NatFromDigits(ds, i - 1)
         IN  IF h >= MaxExp10 THEN MaxExp10 ELSE 10 * h + DigitVal(ds[i])

IndexOf(t, cs) ==
    IF \E i \in 1..Len(t) : t[i] \in cs
    THEN CHOOSE i \in 1..Len(t) : t[i] \in cs /\ \A j \in 1..(i - 1) : t[j] \notin cs
    ELSE 0

\* digits with single underscores between them, as float() accepts them
DigitsUnderscore(t) ==
    \A i \in 1..Len(t) :
        \/ IsDigit(t[i])
        \/ /\ t[i] = "_"
           /\ i > 1 /\ i < Len(t)
           /\ IsDigit(t[i - 1]) /\ IsDigit(t[i + 1])

NoUnderscore(t) == SelectSeq(t, LAMBDA c : c # "_")

\* the float nearest to (-1)^s * mant * 10^p
DecimalToFloat(s, mant, p) ==
    IF mant = <<>> THEN Zero(s)
    ELSE IF p > 310 THEN Inf(s)
    ELSE IF p + BBitLen(mant) < -350 THEN Zero(s)
    ELSE IF p >= 0 THEN Round(s, BMul(mant, BPow10(p)), 0, FALSE, "nearest")
    ELSE LET Quotient(d, k) == Round(s, d.q, -k, d.r # <<>>, "nearest")
             Scaled(den, k) == Quotient(BDivMod(BShl(mant, k), den), k)
             Over(den) ==
                 Scaled(den, MaxOf({0, Prec + 2 + BBitLen(den) - BBitLen(mant)}))
         IN  Over(BPow10(-p))

\* The parts of the text of a number: sign, digits before and after the
\* point, exponent.  float ignores white space around the number and the case
\* of its letters.
Literal(t0) ==
    LET Parts(neg, w, ePos, body, ex, dot) ==
            [neg   |-> neg,
             w     |-> w,
             ip    |-> IF dot = 0 THEN body ELSE SubSeq(body, 1, dot - 1),
             fp    |-> IF dot = 0 THEN <<>>
                       ELSE SubSeq(body, dot + 1, Len(body)),
             hasEx |-> ePos # 0,
             exNeg |-> ex # <<>> /\ ex[1] = "-",
             exDs  |-> IF ex # <<>> /\ ex[1] \in {"+", "-"} THEN Tail(ex)
                       ELSE ex]
        Mantissa(neg, w, ePos, body, ex) ==
            Parts(neg, w, ePos, body, ex, IndexOf(body, {"."}))
        Exponent(neg, w, ePos) ==
            Mantissa(neg, w, ePos,
                     IF ePos = 0 THEN w ELSE SubSeq(w, 1, ePos - 1),
                     IF ePos = 0 THEN <<>> ELSE SubSeq(w, ePos + 1, Len(w)))
        Letters(neg, w) == Exponent(neg, w, IndexOf(w, {"e"}))
        Unsigned(neg, u) == Letters(neg, [i \in 1..Len(u) |-> Lower(u[i])])
        Signed(t) ==
            Unsigned(t # <<>> /\ t[1] = "-",
                     IF t # <<>> /\ t[1] \in {"+", "-"} THEN Tail(t) ELSE t)
    IN  Signed(Strip(t0))

IsInfinity(l) ==
    l.w = <<"i", "n", "f">> \/ l.w = <<"i", "n", "f", "i", "n", "i", "t", "y">>

IsNan(l) == l.w = <<"n", "a", "n">>

\* the text is one that float() accepts
IsFloatLiteral(t0) ==
    LET Accepted(l) ==
            \/ IsInfinity(l)
            \/ IsNan(l)
            \/ /\ DigitsUnderscore(l.ip)
               /\ DigitsUnderscore(l.fp)
               /\ l.ip \o l.fp # <<>>
               /\ (~l.hasEx \/ (l.exDs # <<>> /\ DigitsUnderscore(l.exDs)))
    IN  Accepted(Literal(t0))

\* float(t0): the float that the text writes, or ValueError
ParseFloat(t0) ==
    LET \* the digits ip.fp with the exponent ex
        Number(s, ip, fp, ex) ==
            DecimalToFloat(s, BFromDigits(ip \o fp), ex - Len(fp))
        Exponent(exNeg, exDs) ==
            (IF exNeg THEN -1 ELSE 1) * NatFromDigits(exDs, Len(exDs))
        Value(l, s) ==
            IF IsInfinity(l) THEN Inf(s)
            ELSE IF IsNan(l) THEN NaN
            ELSE Number(s, NoUnderscore(l.ip), NoUnderscore(l.fp),
                        Exponent(l.exNeg, NoUnderscore(l.exDs)))
        Parsed(l) == Value(l, IF l.neg THEN 1 ELSE 0)
    IN  IF ~IsFloatLiteral(t0)
        THEN Raise("ValueError", "could not convert string to float")
        ELSE Parsed(Literal(t0))

\* the n decimal digits of a natural a < 10^n, most significant first
RECURSIVE BToDigitsN(_, _)
BToDigitsN(a, n) ==
    IF n = 0 THEN <<>>
    ELSE IF n = 1 THEN <<Digits[BLimb(a, 1) + 1]>>
    ELSE LET Halves(d, h) ==
                 Force(d, BToDigitsN(d.q, n - h) \o BToDigitsN(d.r, h))
             Split(h) == Halves(BDivMod(a, BPow10(h)), h)
         IN  Split(n \div 2)

DropZeros(ds) ==
    LET nz == {i \in 1..Len(ds) : ds[i] # "0"}
    IN  IF nz = {} THEN <<>> ELSE SubSeq(ds, MinOf(nz), Len(ds))

\* the decimal digits of a natural, most significant first (none for zero)
BToDigits(a) == DropZeros(BToDigitsN(a, (BBitLen(a) * 30103) \div 100000 + 1))

\* format(f, ".<nd>f"): fixed-point with nd digits after the point, the exact
\* binary value rounded to nearest, ties to even
FormatFixed(f, nd) ==
    IF f.k = "nan" THEN <<"n", "a", "n">>
    ELSE IF f.k = "inf"
         THEN (IF f.s = 1 THEN <<"-">> ELSE <<>>) \o <<"i", "n", "f">>
    ELSE LET Text(pad) ==
                 (IF f.s = 1 THEN <<"-">> ELSE <<>>)
                 \o SubSeq(pad, 1, Len(pad) - nd)
                 \o <<".">>
                 \o SubSeq(pad, Len(pad) - nd + 1, Len(pad))
             Padded(ds) ==
                 Text(IF Len(ds) > nd THEN ds
                      ELSE [i \in 1..(nd + 1 - Len(ds)) |-> "0"] \o ds)
             \* |f| * 10^nd = q + a fraction, which c compares with 1/2
             Nearest(q, c) ==
                 Padded(BToDigits(IF c > 0 \/ (c = 0 /\ BIsOdd(q))
                                  THEN BAdd(q, <<1>>) ELSE q))
             \* |f| * 10^nd = T * 2^f.e
             Scaled(T) ==
                 Nearest(IF f.e >= 0 THEN BShl(T, f.e) ELSE BShr(T, -f.e),
                         IF f.e >= 0 THEN -1
                         ELSE BCmp(BLow(T, -f.e), BShl(<<1>>, -f.e - 1)))
         IN  Scaled(BMul(f.m, BPow10(nd)))

(***************************************************************************)
(* linear_regression and pearson_correlation.  x is a list of Python ints  *)
(* (main passes list(range(n))), y a list of floats; a mixed operation     *)
(* converts the int operand to float first.                                *)
(***************************************************************************)
RECURSIVE SumIntTo(_, _)
SumIntTo(x, i) == IF i = 0 THEN 0 ELSE SumIntTo(x, i - 1) + x[i]

\* sum(x) for a list of ints
SumInt(x) == SumIntTo(x, Len(x))

RECURSIVE SumFloatTo(_, _)
SumFloatTo(y, i) ==
    IF i = 0 THEN FromInt(0) ELSE FAdd(SumFloatTo(y, i - 1), y[i])

\* sum(y) for a list of floats: left to right, starting from the int 0
SumFloat(y) == SumFloatTo(y, Len(y))

\* zip(x, y) stops at the shorter list
ZipLen(x, y) == IF Len(x) < Len(y) THEN Len(x) ELSE Len(y)

SumXY(x, y) == SumFloat([i \in 1..ZipLen(x, y) |-> FMul(FromInt(x[i]), y[i])])

\* sum_x2 without the squares
SumX2_plain(x) == SumInt(x)

SumX2(x) == SumInt([i \in 1..Len(x) |-> x[i] ^ 2])

\* n * sum_x2 - sum_x ** 2, on ints
DenominatorX(x) == Len(x) * SumX2(x) - SumInt(x) ^ 2

\* the numerator with the sign of its second term slipped
Numerator_plus(x, y) ==
    FAdd(FMul(FromInt(Len(x)), SumXY(x, y)),
         FMul(FromInt(SumInt(x)), SumFloat(y)))

\* n * sum_xy - sum_x * sum_y
Numerator(x, y) ==
    FSub(FMul(FromInt(Len(x)), SumXY(x, y)),
         FMul(FromInt(SumInt(x)), SumFloat(y)))

\* the slope without the - sum_x ** 2 of its denominator
Slope_short(x, y) == FDiv(Numerator(x, y), FromInt(Len(x) * SumX2(x)))

Slope(x, y) == FDiv(Numerator(x, y), FromInt(DenominatorX(x)))

Intercept(x, y, m) ==
    FDiv(FSub(SumFloat(y), FMul(m, FromInt(SumInt(x)))), FromInt(Len(x)))

LinearRegression(x, y) ==
    LET Line(m) == [k |-> "ok", m |-> m, b |-> Intercept(x, y, m)]
    IN  IF DenominatorX(x) = 0
        THEN Raise("ValueError",
                   "Cannot compute linear regression: denominator is zero")
        ELSE Line(Slope(x, y))

\* the first exception in a list of results, or the list itself
FirstRaise(vs) ==
    LET ex == {i \in 1..Len(vs) : IsRaise(vs[i])}
    IN  IF ex = {} THEN [k |-> "ok", v |-> vs] ELSE vs[MinOf(ex)]

\* math.sqrt((n * sum_x2 - sum_x ** 2) * (n * sum_y2 - sum_y ** 2)), given
\* sum_y2 and sum_y ** 2
DenominatorR(x, sum_y2, sq_sum_y) ==
    FSqrt(FMul(FromInt(DenominatorX(x)),
               FSub(FMul(FromInt(Len(x)), sum_y2), sq_sum_y)))

PearsonCorrelation(x, y, libm) ==
    LET Ratio(denominator) ==
            IF IsRaise(denominator) THEN denominator
            ELSE IF FIsZero(denominator)
                 THEN Raise("ValueError",
                            "Cannot compute Pearson correlation: denominator is zero")
            ELSE [k |-> "ok", r |-> FDiv(Numerator(x, y), denominator)]
        \* squares: the y ** 2 of sum_y2; sq_sum_y: sum_y ** 2
        Root(squares, sq_sum_y) ==
            IF IsRaise(squares) THEN squares
            ELSE IF IsRaise(sq_sum_y) THEN sq_sum_y
            ELSE Ratio(DenominatorR(x, SumFloat(squares.v), sq_sum_y))
    IN  Root(FirstRaise([i \in 1..Len(y) |-> FPow2(y[i], libm)]),
             FPow2(SumFloat(y), libm))

(***************************************************************************)
(* The inputs of a run: the command line, the data file and the platform's *)
(* libm.                                                                   *)
(***************************************************************************)
MaxLines == 3

MaxN == 5

MaxRuns == 2

\* lines of a data file, without their line terminator (which strip removes
\* with the other white space)
BlankLines == {<<>>, <<" ", "\t">>}

BadLines == {<<" ", "a", "b", "c">>}

NumLines == {<<"5">>, <<" ", "0", ".", "3", " ">>}

IntLines == {<<"5">>, <<"-", "2">>, <<"1">>}

GenLines == BlankLines \cup BadLines \cup NumLines

RECURSIVE SeqsUpTo(_, _)
SeqsUpTo(S, n) ==
    IF n = 0 THEN {<<>>}
    ELSE LET T == SeqsUpTo(S, n - 1)
         IN  T \cup {Append(t, e) : t \in {u \in T : Len(u) = n - 1}, e \in S}

\* the decimal literal of a small integer
NatChars(k) ==
    IF k < 10 THEN <<Digits[k + 1]>>
    ELSE IF k < 100 THEN <<Digits[(k \div 10) + 1], Digits[(k % 10) + 1]>>
    ELSE <<Digits[(k \div 100) + 1], Digits[((k \div 10) % 10) + 1],
           Digits[(k % 10) + 1]>>

IntChars(i) == IF i < 0 THEN <<"-">> \o NatChars(-i) ELSE NatChars(i)

\* the file of the n observations a * i + c, i = 0..n-1
LinearFile(a, c, n) == [i \in 1..n |-> IntChars(a * (i - 1) + c)]

LinearSlopes == {-2, -1, 0, 1, 3}

LinearIntercepts == {-1, 1, 5}

LinearFiles ==
    {LinearFile(a, c, n) : a \in LinearSlopes, c \in LinearIntercepts,
                           n \in 2..MaxN}

\* observations that are not small integers: fractions, huge and tiny
\* numbers, infinities, nine-digit integers
EdgeFiles ==
    { << <<"0", ".", "1">>, <<"1", ".", "5">> >>,
      << <<"0">>, <<"1", "e", "2", "0", "0">> >>,
      << <<"i", "n", "f">>, <<"i", "n", "f">> >>,
      << <<"1", "e", "-", "2", "0", "0">>, <<"2", "e", "-", "2", "0", "0">> >>,
      << <<"0", ".", "7">>, <<"0", ".", "7">>, <<"0", ".", "7">>,
         <<"0", ".", "7">>, <<"0", ".", "7">> >>,
      << <<"1", "0", "0", "0", "0", "0", "0", "0", "3">>,
         <<"1", "0", "0", "0", "0", "0", "0", "0", "0">> >>,
      << <<"1", "3", "4", "2", "1", "7", "7", "2", "9">>,
         <<"1", "3", "4", "2", "1", "7", "7", "3", "0">> >> }

\* observations that are small integers, in no particular pattern
IntFiles == {f \in SeqsUpTo(IntLines, MaxLines) : Len(f) >= 2}

Files ==
    SeqsUpTo(GenLines, MaxLines) \cup LinearFiles \cup IntFiles \cup EdgeFiles

Argvs ==
    { <<"linear_stats.py">>,
      <<"linear_stats.py", "data.txt">>,
      <<"linear_stats.py", "data.txt", "extra">> }

LibmModes == {"nearest", "down", "up"}

(***************************************************************************)
(* The program.                                                            *)
(***************************************************************************)
VARIABLES
    argv,        \* sys.argv
    file,        \* the data file: whether it can be opened, and its lines
    libm,        \* how the platform's pow rounds an inexact result
    pc,          \* the position of the run in main
    line_no,     \* parse_file: lines read so far (the counter of enumerate)
    values,      \* parse_file: the list being built
    y_values,    \* main: the parsed observations
    x_values,    \* main: the indices
    m, b, r,     \* main: slope, intercept, correlation
    stdout,      \* lines printed to standard output
    stderr,      \* lines printed to the error stream
    exit,        \* <<>> while running, then <<exit status>>
    calls,       \* history: the functions main has called in this run
    run,         \* the number of this run
    first        \* history: the input and the outcome of the first run

vars == <<argv, file, libm, pc, line_no, values, y_values, x_values, m, b, r,
          stdout, stderr, exit, calls, run, first>>

NoFloat == [k |-> "none", s |-> 0, m |-> <<>>, e |-> 0]

NoRun == [lines |-> <<>>, y |-> <<>>, x |-> <<>>, stdout |-> <<>>,
          stderr |-> <<>>, exit |-> <<>>]

\* a line on the error stream
ErrLine(kind, exc, msg, line, text) ==
    [kind |-> kind, exc |-> exc, msg |-> msg, line |-> line, text |-> text]

\* the traceback of an exception that nothing catches, raised in
\* pearson_correlation, called from main, called from the module
Traceback(e) ==
    << ErrLine("traceback", "", "Traceback (most recent call last):", 0, <<>>),
       ErrLine("traceback", "", "<module>", 154, <<>>),
       ErrLine("traceback", "", "main", 144, <<>>),
       ErrLine("traceback", "", "pearson_correlation", 0, <<>>),
       ErrLine("traceback", e.exc, e.msg, 0, <<>>) >>

UsageExit == 1

ReadErrorExit == 1

NoDataExit == 1

StatsErrorExit == 1

UncaughtExit == 1

SuccessExit == 0

\* the list outliving the call (a module-level or default-argument list)
NewValues_kept(old) == old

\* values: List[float] = []
NewValues(old) == <<>>

\* enumerate(f) without start=1
LineNo_from0(i) == i - 1

\* enumerate(f, start=1): the number of the line at position i of the file
LineNo(i) == i

\* no test for a blank line
IsBlank_never(stripped) == FALSE

\* if not stripped
IsBlank(stripped) == stripped = <<>>

\* no test for an empty list
IsEmpty_never(ys) == FALSE

\* if not y_values
IsEmpty(ys) == ys = <<>>

\* list(range(n))
XValues(n) == [i \in 1..n |-> i - 1]

Init ==
    /\ argv \in Argvs
    /\ file \in [readable : BOOLEAN, lines : Files]
    /\ libm \in LibmModes
    \* a run that never reads the file is the same run whatever the file holds
    /\ (Len(argv) # 2 \/ ~file.readable) => (file.lines = <<>> /\ libm = "nearest")
    /\ pc = "main"
    /\ line_no = 0
    /\ values = <<>>
    /\ y_values = <<>>
    /\ x_values = <<>>
    /\ m = NoFloat /\ b = NoFloat /\ r = NoFloat
    /\ stdout = <<>>
    /\ stderr = <<>>
    /\ exit = <<>>
    /\ calls = <<>>
    /\ run = 1
    /\ first = NoRun

\* print(..., file=sys.stderr); return code
Fail(lines, code) ==
    /\ stderr' = stderr \o lines
    /\ exit' = <<code>>
    /\ pc' = "done"

\* main: len(argv) != 2
UsageError ==
    /\ pc = "main"
    /\ Len(argv) # 2
    /\ Fail(<<ErrLine("usage", "", "Usage: <data_file>", 0, <<>>)>>, UsageExit)
    /\ UNCHANGED <<argv, file, libm, line_no, values, y_values, x_values,
                   m, b, r, stdout, calls, run, first>>

\* main: data_file = argv[1]; parse_file is entered
EnterParse ==
    /\ pc = "main"
    /\ Len(argv) = 2
    /\ values' = NewValues(values)
    /\ pc' = "open"
    /\ UNCHANGED <<argv, file, libm, line_no, y_values, x_values, m, b, r,
                   stdout, stderr, exit, calls, run, first>>

\* parse_file: open() raises OSError, which main reports
OpenFails ==
    /\ pc = "open"
    /\ ~file.readable
    /\ Fail(<<ErrLine("read", "OSError", "Error reading file", 0, <<>>)>>,
            ReadErrorExit)
    /\ UNCHANGED <<argv, file, libm, line_no, values, y_values, x_values,
                   m, b, r, stdout, calls, run, first>>

OpenFile ==
    /\ pc = "open"
    /\ file.readable
    /\ line_no' = 0
    /\ pc' = "read"
    /\ UNCHANGED <<argv, file, libm, values, y_values, x_values, m, b, r,
                   stdout, stderr, exit, calls, run, first>>

\* parse_file: the next line is blank
SkipBlank ==
    /\ pc = "read"
    /\ line_no < Len(file.lines)
    /\ IsBlank(Strip(file.lines[line_no + 1]))
    /\ line_no' = line_no + 1
    /\ UNCHANGED <<argv, file, libm, pc, values, y_values, x_values, m, b, r,
                   stdout, stderr, exit, calls, run, first>>

\* parse_file: the next line is a number
AppendValue ==
    /\ pc = "read"
    /\ line_no < Len(file.lines)
    /\ LET stripped == Strip(file.lines[line_no + 1])
       IN  /\ ~IsBlank(stripped)
           /\ IsFloatLiteral(stripped)
           /\ values' = Append(values, ParseFloat(stripped))
    /\ line_no' = line_no + 1
    /\ UNCHANGED <<argv, file, libm, pc, y_values, x_values, m, b, r,
                   stdout, stderr, exit, calls, run, first>>

\* parse_file: float() raises ValueError; parse_file raises its own, which
\* main reports
ParseError ==
    /\ pc = "read"
    /\ line_no < Len(file.lines)
    /\ LET stripped == Strip(file.lines[line_no + 1])
       IN  /\ ~IsBlank(stripped)
           /\ ~IsFloatLiteral(stripped)
           /\ Fail(<<ErrLine("read", "ValueError", "Unable to parse line",
                             LineNo(line_no + 1), stripped)>>,
                   ReadErrorExit)
    /\ line_no' = line_no + 1
    /\ UNCHANGED <<argv, file, libm, values, y_values, x_values, m, b, r,
                   stdout, calls, run, first>>

\* parse_file: the file is exhausted; return values
EndOfFile ==
    /\ pc = "read"
    /\ line_no = Len(file.lines)
    /\ y_values' = values
    /\ pc' = "check"
    /\ UNCHANGED <<argv, file, libm, line_no, values, x_values, m, b, r,
                   stdout, stderr, exit, calls, run, first>>

\* main: if not y_values
NoData ==
    /\ pc = "check"
    /\ IsEmpty(y_values)
    /\ Fail(<<ErrLine("nodata", "", "Error: No data found in file", 0, <<>>)>>,
            NoDataExit)
    /\ UNCHANGED <<argv, file, libm, line_no, values, y_values, x_values,
                   m, b, r, stdout, calls, run, first>>

\* main: x_values = list(range(len(y_values)))
BuildX ==
    /\ pc = "check"
    /\ ~IsEmpty(y_values)
    /\ x_values' = XValues(Len(y_values))
    /\ pc' = "regress"
    /\ UNCHANGED <<argv, file, libm, line_no, values, y_values, m, b, r,
                   stdout, stderr, exit, calls, run, first>>

\* the regression line printed as soon as it is known, before the
\* correlation is computed
CallLinearRegression_print ==
    /\ pc = "regress"
    /\ calls' = Append(calls, "linear_regression")
    /\ LET Returned(res) ==
               IF IsRaise(res)
               THEN /\ Fail(<<ErrLine("stats", res.exc, res.msg, 0, <<>>)>>,
                            StatsErrorExit)
                    /\ UNCHANGED <<m, b, stdout>>
               ELSE /\ m' = res.m
                    /\ b' = res.b
                    /\ stdout' = Append(stdout,
                                        [kind |-> "Linear Regression Line: y = ",
                                         a |-> FormatFixed(res.m, 6),
                                         b |-> FormatFixed(res.b, 6)])
                    /\ pc' = "pearson"
                    /\ UNCHANGED <<stderr, exit>>
       IN  Returned(LinearRegression(x_values, y_values))
    /\ UNCHANGED <<argv, file, libm, line_no, values, y_values, x_values, r,
                   run, first>>

\* main: m, b = linear_regression(x_values, y_values)
CallLinearRegression ==
    /\ pc = "regress"
    /\ calls' = Append(calls, "linear_regression")
    /\ LET Returned(res) ==
               IF IsRaise(res)
               THEN /\ Fail(<<ErrLine("stats", res.exc, res.msg, 0, <<>>)>>,
                            StatsErrorExit)
                    /\ UNCHANGED <<m, b>>
               ELSE /\ m' = res.m
                    /\ b' = res.b
                    /\ pc' = "pearson"
                    /\ UNCHANGED <<stderr, exit>>
       IN  Returned(LinearRegression(x_values, y_values))
    /\ UNCHANGED <<argv, file, libm, line_no, values, y_values, x_values, r,
                   stdout, run, first>>

\* main: r = pearson_correlation(x_values, y_values); the except clause
\* catches ValueError only
CallPearsonCorrelation ==
    /\ pc = "pearson"
    /\ calls' = Append(calls, "pearson_correlation")
    /\ LET Returned(res) ==
               IF IsRaise(res)
               THEN /\ IF res.exc = "ValueError"
                       THEN Fail(<<ErrLine("stats", res.exc, res.msg, 0, <<>>)>>,
                                 StatsErrorExit)
                       ELSE Fail(Traceback(res), UncaughtExit)
                    /\ UNCHANGED r
               ELSE /\ r' = res.r
                    /\ pc' = "print"
                    /\ UNCHANGED <<stderr, exit>>
       IN  Returned(PearsonCorrelation(x_values, y_values, libm))
    /\ UNCHANGED <<argv, file, libm, line_no, values, y_values, x_values, m, b,
                   stdout, run, first>>

\* main: print(f"Linear Regression Line: y = {m:.6f}x + {b:.6f}")
PrintRegression ==
    /\ pc = "print"
    /\ stdout' = Append(stdout, [kind |-> "Linear Regression Line: y = ",
                                 a |-> FormatFixed(m, 6),
                                 b |-> FormatFixed(b, 6)])
    /\ pc' = "print2"
    /\ UNCHANGED <<argv, file, libm, line_no, values, y_values, x_values,
                   m, b, r, stderr, exit, calls, run, first>>

\* main: print(f"Pearson Correlation Coefficient: {r:.10f}"); return 0
PrintCorrelation ==
    /\ pc = "print2"
    /\ stdout' = Append(stdout, [kind |-> "Pearson Correlation Coefficient: ",
                                 a |-> FormatFixed(r, 10),
                                 b |-> <<>>])
    /\ exit' = <<SuccessExit>>
    /\ pc' = "done"
    /\ UNCHANGED <<argv, file, libm, line_no, values, y_values, x_values,
                   m, b, r, stderr, calls, run, first>>

\* a line of white space only
IsBlankLine(l) == \A i \in 1..Len(l) : l[i] \in Whitespace

NoBlankLines(ls) == SelectSeq(ls, LAMBDA l : ~IsBlankLine(l))

Outcome ==
    [lines |-> file.lines, y |-> y_values, x |-> x_values, stdout |-> stdout,
     stderr |-> stderr, exit |-> exit]

\* main is called again, on the file lines2; of the state of the run before,
\* only the list that parse_file builds could carry over, and NewValues
\* decides that
Start(lines2) ==
    /\ pc = "done"
    /\ run < MaxRuns
    /\ run' = run + 1
    /\ first' = IF run = 1 THEN Outcome ELSE first
    /\ file' = [file EXCEPT !.lines = lines2]
    /\ pc' = "main"
    /\ line_no' = 0
    /\ y_values' = <<>>
    /\ x_values' = <<>>
    /\ m' = NoFloat /\ b' = NoFloat /\ r' = NoFloat
    /\ stdout' = <<>>
    /\ stderr' = <<>>
    /\ exit' = <<>>
    /\ calls' = <<>>
    /\ UNCHANGED <<argv, libm, values>>

\* the program is run again on the same file
Rerun == Start(file.lines)

\* the blank lines are removed from the file and the program is run again
RerunWithoutBlanks ==
    /\ NoBlankLines(file.lines) # file.lines
    /\ Start(NoBlankLines(file.lines))

Next ==
    \/ UsageError
    \/ EnterParse
    \/ OpenFails
    \/ OpenFile
    \/ SkipBlank
    \/ AppendValue
    \/ ParseError
    \/ EndOfFile
    \/ NoData
    \/ BuildX
    \/ CallLinearRegression
    \/ CallPearsonCorrelation
    \/ PrintRegression
    \/ PrintCorrelation
    \/ Rerun
    \/ RerunWithoutBlanks

Spec == Init /\ [][Next]_vars

(***************************************************************************)
(* The vocabulary of the properties.                                       *)
(***************************************************************************)
\* the run gets as far as reading the file
ReadsFile == Len(argv) = 2 /\ file.readable

\* the positions of the lines that are neither blank nor a number
BadIdx(ls) ==
    {i \in 1..Len(ls) : ~IsBlankLine(ls[i]) /\ ~IsFloatLiteral(ls[i])}

AllBlank(ls) == \A i \in 1..Len(ls) : IsBlankLine(ls[i])

\* the numbers on the non-blank lines, in order
Observations(ls) ==
    LET nb == NoBlankLines(ls) IN [k \in 1..Len(nb) |-> ParseFloat(nb[k])]

RegressionError ==
    ErrLine("stats", "ValueError",
            "Cannot compute linear regression: denominator is zero", 0, <<>>)

PearsonError ==
    ErrLine("stats", "ValueError",
            "Cannot compute Pearson correlation: denominator is zero", 0, <<>>)

NoDataError == ErrLine("nodata", "", "Error: No data found in file", 0, <<>>)

\* the two result lines, in their order
TwoResultLines ==
    /\ Len(stdout) = 2
    /\ stdout[1].kind = "Linear Regression Line: y = "
    /\ stdout[2].kind = "Pearson Correlation Coefficient: "

\* x == y for two floats
FEq(x, y) ==
    /\ x.k # "nan"
    /\ y.k # "nan"
    /\ (x = y \/ (FIsZero(x) /\ FIsZero(y)))

AllEqual(y) == \A i \in 1..Len(y) : FEq(y[i], y[1])

\* the difference x - y of two finite floats as a real number: no rounding,
\* so the mantissa may exceed Prec bits
ExactDiff(x, y) ==
    LET e  == IF x.e < y.e THEN x.e ELSE y.e
        mx == BShl(x.m, x.e - e)
        my == BShl(y.m, y.e - e)
        c  == BCmp(mx, my)
    IN  IF x.s # y.s
        THEN (IF mx = <<>> /\ my = <<>> THEN Zero(0)
              ELSE Canon(x.s, BAdd(mx, my), e))
        ELSE IF c = 0 THEN Zero(0)
        ELSE IF c > 0 THEN Canon(x.s, BSub(mx, my), e)
        ELSE Canon(1 - x.s, BSub(my, mx), e)

\* y[i] = a * (i - 1) + c over the reals, for a = y[2] - y[1] # 0
IsLinear(y) ==
    /\ Len(y) >= 2
    /\ \A i \in 1..Len(y) : y[i].k = "fin"
    /\ ExactDiff(y[2], y[1]) # Zero(0)
    /\ \A i \in 2..(Len(y) - 1) :
          ExactDiff(y[i + 1], y[i]) = ExactDiff(y[2], y[1])

\* a float that is an integer of magnitude below 2^30
IsInt(f) == f.k = "fin" /\ f.e >= 0 /\ BBitLen(f.m) + f.e <= 30

AllInt(y) == \A i \in 1..Len(y) : IsInt(y[i])

\* a float that is an integer of magnitude below 2^15
SmallInt(f) ==
    f.k = "fin" /\ Len(f.m) <= 1 /\ f.e >= 0 /\ BBitLen(f.m) + f.e <= 15

\* the integer a SmallInt float is
IntOf(f) == (IF f.s = 1 THEN -1 ELSE 1) * BLimb(f.m, 1) * 2^f.e

\* zero, or of a magnitude from 2^-15 up to 2^15: far from overflow and
\* underflow
Moderate(f) ==
    /\ f.k = "fin"
    /\ (f.m = <<>> \/ BBitLen(f.m) + f.e \in -14..15)

AllModerate(y) == \A i \in 1..Len(y) : Moderate(y[i])

Abs(i) == IF i < 0 THEN -i ELSE i

\* -1 <= f <= 1
InUnit(f) ==
    /\ f.k = "fin"
    /\ (f.m = <<>> \/ BBitLen(f.m) + f.e <= 0 \/ (f.m = <<1>> /\ f.e = 0))

(***************************************************************************)
(* The properties.                                                         *)
(***************************************************************************)
\* C1: a run that has ended has either exit status 0 and exactly the two
\* result lines on standard output, the regression line first, or exit
\* status 1, nothing on standard output and at least one line on the error
\* stream; so a regression that succeeds before a correlation that fails
\* leaves no line on standard output.
C1_TwoOutcomes ==
    pc = "done" =>
        \/ exit = <<0>> /\ TwoResultLines
        \/ exit = <<1>> /\ stdout = <<>> /\ stderr # <<>>

\* a run in which linear_regression returned and pearson_correlation raised
C1_PearsonFailsAfterRegression ==
    /\ pc = "done"
    /\ calls = <<"linear_regression", "pearson_correlation">>
    /\ m # NoFloat
    /\ r = NoFloat
    /\ exit = <<1>>

\* C2: when the file holds a line that is neither blank nor a number, the
\* run reads no line beyond the first such line and ends with exit status 1,
\* nothing on standard output and one error line naming that line's position
\* in the file, counted from 1 with the blank lines, and its stripped text;
\* no list of values reaches main and no statistic is computed.
C2_ParseErrorAtFirstBadLine ==
    (ReadsFile /\ BadIdx(file.lines) # {}) =>
        LET k == MinOf(BadIdx(file.lines))
        IN  /\ line_no <= k
            /\ y_values = <<>>
            /\ calls = <<>>
            /\ stdout = <<>>
            /\ pc = "done" =>
                  /\ line_no = k
                  /\ exit = <<1>>
                  /\ stderr = <<ErrLine("read", "ValueError",
                                        "Unable to parse line", k,
                                        Strip(file.lines[k]))>>

\* a parse error on line 2 of 3, after a blank line
C2_BadLineAfterBlank ==
    /\ pc = "done"
    /\ ReadsFile
    /\ Len(file.lines) = 3
    /\ IsBlankLine(file.lines[1])
    /\ BadIdx(file.lines) = {2, 3}
    /\ stderr # <<>>
    /\ stderr[1].line = 2
    /\ stderr[1].text = <<"a", "b", "c">>

\* C3: for a file whose non-blank lines are all numbers, the run on the file
\* with its blank lines removed ends as the run on the file itself did: the
\* same observations, the observations being the numbers of the non-blank
\* lines in order, the same indices, the k-th observation having index k - 1,
\* and the same output, error line and exit status.
C3_BlankLinesIgnored ==
    (/\ pc = "done"
     /\ run >= 2
     /\ ReadsFile
     /\ BadIdx(first.lines) = {}
     /\ file.lines = NoBlankLines(first.lines)) =>
        /\ first.y = Observations(first.lines)
        /\ y_values = first.y
        /\ x_values = first.x
        /\ \A k \in 1..Len(x_values) : x_values[k] = k - 1
        /\ Len(x_values) \in {0, Len(y_values)}
        /\ stdout = first.stdout
        /\ stderr = first.stderr
        /\ exit = first.exit

\* a successful run on a file from which blank lines had to be removed
C3_BlanksRemoved ==
    /\ pc = "done"
    /\ run = 2
    /\ ReadsFile
    /\ BadIdx(first.lines) = {}
    /\ file.lines = NoBlankLines(first.lines)
    /\ Len(first.lines) > Len(file.lines)
    /\ IsBlankLine(first.lines[1])
    /\ exit = <<0>>

\* C4: on a file without a non-blank line, neither linear_regression nor
\* pearson_correlation is ever called and nothing is printed on standard
\* output, and the run ends with exit status 1 and the no-data error.
C4_EmptyInput ==
    (ReadsFile /\ AllBlank(file.lines)) =>
        /\ calls = <<>>
        /\ pc \notin {"regress", "pearson", "print", "print2"}
        /\ x_values = <<>>
        /\ m = NoFloat /\ b = NoFloat /\ r = NoFloat
        /\ stdout = <<>>
        /\ pc = "done" => (exit = <<1>> /\ stderr = <<NoDataError>>)

\* the run on a file of blank lines only has ended
C4_BlankOnlyFile ==
    /\ pc = "done"
    /\ ReadsFile
    /\ Len(file.lines) >= 2
    /\ AllBlank(file.lines)
    /\ exit = <<1>>

\* C5: once linear_regression has been called, on the indices 0..n-1 of the
\* n >= 1 observations: if n = 1 the denominator is zero, the run has ended
\* with exit status 1 and the regression's degenerate-input error, and no
\* slope exists; if n >= 2 the denominator is not zero, slope and intercept
\* have been returned and no regression error is reported.
C5_RegressionFailsIffSingle ==
    calls # <<>> =>
        /\ Len(y_values) >= 1
        /\ x_values = [i \in 1..Len(y_values) |-> i - 1]
        /\ IF Len(y_values) = 1
           THEN /\ DenominatorX(x_values) = 0
                /\ pc = "done"
                /\ calls = <<"linear_regression">>
                /\ exit = <<1>>
                /\ stderr = <<RegressionError>>
                /\ stdout = <<>>
                /\ m = NoFloat /\ b = NoFloat
           ELSE /\ DenominatorX(x_values) # 0
                /\ m # NoFloat /\ b # NoFloat
                /\ ~IsRaise(m) /\ ~IsRaise(b)
                /\ \A i \in 1..Len(stderr) : stderr[i] # RegressionError

\* the regression was called on a single observation, after a blank line
C5_SingleObservation ==
    /\ calls = <<"linear_regression">>
    /\ Len(y_values) = 1
    /\ Len(file.lines) = 3
    /\ pc = "done"

\* C6: with a pow that rounds to nearest, the run on n >= 2 observations
\* that are one and the same number c of moderate magnitude has a regression of slope 0 and
\* intercept c and ends with exit status 1, nothing on standard output and
\* the correlation's degenerate-input error.
C6_ConstantInput ==
    (/\ pc = "done"
     /\ libm = "nearest"
     /\ Len(y_values) >= 2
     /\ AllModerate(y_values)
     /\ AllEqual(y_values)) =>
        /\ FIsZero(m)
        /\ FEq(b, y_values[1])
        /\ exit = <<1>>
        /\ stdout = <<>>
        /\ stderr = <<PearsonError>>

\* C7: with a pow that rounds to nearest, the run on n >= 2 integer
\* observations y[i] = a * (i - 1) + c, a # 0, of magnitude below 2^30 ends
\* with exit status 0, the slope equal to a, the intercept equal to c and
\* the correlation equal to 1 if a > 0 and to -1 if a < 0.
C7_ExactOnLinearInput ==
    (/\ pc = "done"
     /\ libm = "nearest"
     /\ AllInt(y_values)
     /\ IsLinear(y_values)) =>
        /\ exit = <<0>>
        /\ m = ExactDiff(y_values[2], y_values[1])
        /\ FEq(b, y_values[1])
        /\ r = FromInt(IF ExactDiff(y_values[2], y_values[1]).s = 0
                       THEN 1 ELSE -1)

\* C7, for integers: the run on the 2 <= n <= 20 observations
\* y[i] = a * (i - 1) + c, for integers a # 0 and c of magnitude at most
\* 1000, ends with exit status 0, the slope equal to a, the intercept equal
\* to c and the correlation equal to 1 if a > 0 and to -1 if a < 0.
C7_ExactOnSmallIntegerLines ==
    (/\ pc = "done"
     /\ Len(y_values) \in 2..20
     /\ \A i \in 1..Len(y_values) : SmallInt(y_values[i])
     /\ LET c == IntOf(y_values[1])
            a == IntOf(y_values[2]) - c
        IN  /\ a # 0
            /\ Abs(a) <= 1000
            /\ Abs(c) <= 1000
            /\ \A i \in 1..Len(y_values) :
                  IntOf(y_values[i]) = a * (i - 1) + c) =>
        LET c == IntOf(y_values[1])
            a == IntOf(y_values[2]) - c
        IN  /\ exit = <<0>>
            /\ TwoResultLines
            /\ m = FromInt(a)
            /\ FEq(b, FromInt(c))
            /\ r = FromInt(IF a > 0 THEN 1 ELSE -1)

\* the run on the observations 1, 2, 3, 4, 5 has printed slope 1, intercept 1
\* and correlation 1
C7_OneToFive ==
    /\ pc = "done"
    /\ y_values = [i \in 1..5 |-> FromInt(i)]
    /\ exit = <<0>>
    /\ Len(stdout) = 2
    /\ stdout[1].a = <<"1", ".", "0", "0", "0", "0", "0", "0">>
    /\ stdout[1].b = <<"1", ".", "0", "0", "0", "0", "0", "0">>
    /\ stdout[2].a = <<"1", ".", "0", "0", "0", "0", "0", "0", "0", "0", "0",
                       "0">>

\* C8: with a pow that rounds to nearest and integer observations of
\* magnitude below 2^30, a correlation that pearson_correlation has returned
\* lies in [-1, 1], and the square root is never taken of a negative product.
C8_CorrelationInUnitInterval ==
    (libm = "nearest" /\ AllInt(y_values)) =>
        /\ r # NoFloat => InUnit(r)
        /\ \A i \in 1..Len(stderr) : stderr[i].msg # "math domain error"

\* C8, for integers: a correlation that pearson_correlation has returned for
\* the indices 0..n-1 and n <= 20 integer observations of magnitude at most
\* 10000 lies in [-1, 1], and the square root is not taken of a negative
\* product.
C8_CorrelationOfSmallIntegers ==
    (/\ Len(y_values) <= 20
     /\ \A i \in 1..Len(y_values) :
           SmallInt(y_values[i]) /\ Abs(IntOf(y_values[i])) <= 10000) =>
        /\ r # NoFloat => InUnit(r)
        /\ \A i \in 1..Len(stderr) : stderr[i].msg # "math domain error"

\* a correlation strictly inside (-1, 1) has been returned for integer
\* observations
C8_InteriorCorrelation ==
    /\ r # NoFloat
    /\ r.k = "fin"
    /\ r.m # <<>>
    /\ BBitLen(r.m) + r.e <= 0
    /\ Len(y_values) = 3
    /\ \A i \in 1..Len(y_values) : SmallInt(y_values[i])

C10_SuccessIffTwoDistinct ==
    (/\ pc = "done"
     /\ libm = "nearest"
     /\ ReadsFile
     /\ BadIdx(file.lines) = {}
     /\ AllModerate(y_values)) =>
        /\ exit = <<0>> <=> (Len(y_values) >= 2 /\ ~AllEqual(y_values))
        /\ exit = <<0>> =>
              x_values = [i \in 1..Len(y_values) |-> i - 1]

=============================================================================
